---- MODULE Spec2Model ----
(***************************************************************************)
(* Model of the sshx terminal driver (crates/sshx/src/terminal.rs): one    *)
(* call of Terminal::new, the forked child up to and after execvp, the two *)
(* tokio File handles over the PTY master, the window size ioctls and the  *)
(* PinnedDrop that sends SIGKILL.  The kernel side (descriptor tables, the *)
(* PTY buffers, the process table, signals) is modelled as far as the      *)
(* driver's calls depend on it.                                            *)
(***************************************************************************)
EXTENDS Integers, Sequences, FiniteSets, TLC

\* ------------------------------------------------------------ bounds
\* Highest descriptor number of a process's descriptor table.
MaxFd == 5
\* Capacity, in bytes, of each direction of the PTY's kernel buffer.
BufCap == 1
\* Number of bytes the caller writes during the session.
MaxWrites == 2

Fds == 0..MaxFd
Pids == {101, 102}
\* Sample (rows, cols) arguments of set_winsize, each a u16 (terminal.rs:106),
\* with both ends of the range and pairs that tell rows from columns.
WinsizeSamples == {<<0, 0>>, <<120, 72>>, <<0, 65535>>, <<65535, 65535>>}
\* Commands given to Terminal::new, by what happens to them:
\*   sh      a shell that reads its terminal and echoes what it reads
\*   busy    a program that loops without ever touching its terminal
\*   daemon  like busy, and it ignores SIGHUP
\*   missing a path that does not exist (execvp fails)
\*   nul     a string with an interior NUL byte (CString::new fails)
Commands == {"sh", "busy", "daemon", "missing", "nul"}
\* Locks of the parent process that another thread may hold at fork time.
Locks == {"alloc", "env"}
HeldChoices == {{}, {"alloc"}, {"env"}}
\* The parent's descriptor table before Terminal::new: stdio open; stdio
\* and one more descriptor open; stdin closed; stdin and stdout closed.
InitialFdTables ==
    { [f \in Fds |-> IF f \in 0..2 THEN "other" ELSE "free"],
      [f \in Fds |-> IF f \in 0..3 THEN "other" ELSE "free"],
      [f \in Fds |-> IF f \in 1..2 THEN "other" ELSE "free"],
      [f \in Fds |-> IF f = 2 THEN "other" ELSE "free"] }
EnvVars == {"TERM", "COLORTERM", "TERM_PROGRAM", "TERM_PROGRAM_VERSION"}
\* The parent's environment at open time, for the four variables.
ParentEnvs ==
    { [v \in EnvVars |-> "unset"],
      [v \in EnvVars |-> IF v = "TERM" THEN "dumb" ELSE "1.0"] }

VARIABLES
    shell,        \* the command given to Terminal::new
    parentFds,    \* the parent's descriptor table: fd -> what it refers to
    parentEnv,    \* the parent's environment
    newPc,        \* position of Terminal::new
    newErr,       \* the step at which Terminal::new failed, or "none"
    slavePort,    \* result.slave, the raw descriptor passed to fork_child
    newChild,     \* the pid fork_child returned to Terminal::new, 0 before
    term,         \* the Terminal struct and its lifecycle state
    files,        \* the tokio File objects, by handle
    procs,        \* the kernel's process table: pid -> state
    childPc,      \* the next call of the forked child
    childFds,     \* the child's descriptor table
    childSess,    \* [leader, ctty]: session leadership, controlling terminal
    childEnv,     \* the child's environment
    childArgv,    \* argument list of the image the child runs, once exec'd
    childCalls,   \* the calls the child made since the fork, in order
    childExit,    \* how the child ended: [status, via]
    heldAtFork,   \* locks held by other parent threads when fork happened
    winsize,      \* the PTY's window-size structure
    inBuf,        \* bytes written to the master, not yet read by the child
    outBuf,       \* bytes written by the child, not yet read from the master
    readerPc,     \* the reading task: "idle" or "pending"
    writerPc,     \* the writing task: "idle" or "pending"
    readerWaits,  \* the in-flight operation the reader's last poll waited on
    writerWaits,  \* the in-flight operation the writer's last poll waited on
    readLog,      \* all bytes read from the read half so far
    readEos,      \* the read half has reported end-of-stream
    nWrites,      \* bytes accepted by the write half so far
    kills,        \* the kill(2) calls made by the driver, in order
    sigkill,      \* a SIGKILL is queued for the child and not yet delivered
    lastGet,      \* result of the last get_winsize since the last set_winsize
    lastSet,      \* arguments of the last set_winsize, <<>> before the first
    ioErr         \* the driver call that returned an error in the last step, or "none"

vars == << shell, parentFds, parentEnv, newPc, newErr, slavePort, newChild,
           term, files,
           procs, childPc, childFds, childSess, childEnv, childArgv,
           childCalls, childExit, heldAtFork, winsize, inBuf, outBuf,
           readerPc, writerPc, readerWaits, writerWaits, readLog, readEos,
           nWrites, kills, sigkill, lastGet, lastSet, ioErr >>

openVars  == << newPc, newErr, slavePort, newChild >>
childVars == << childPc, childFds, childSess, childEnv, childArgv,
                childCalls, childExit >>
ptyVars   == << inBuf, outBuf >>
taskVars  == << readerPc, writerPc, readerWaits, writerWaits, readLog,
                readEos, nWrites >>
geomVars  == << winsize, lastGet, lastSet >>

\* ------------------------------------------------------------ helpers
NoFds == [f \in Fds |-> "free"]

FreeFds(t) == {f \in Fds : t[f] = "free"}
Min(S) == CHOOSE x \in S : \A y \in S : x <= y
\* The kernel gives the lowest free descriptor number.
LowestFree(t) == Min(FreeFds(t))
CloseKind(t, kind) == [f \in Fds |-> IF t[f] = kind THEN "free" ELSE t[f]]
CloseFd(t, fd) == [t EXCEPT ![fd] = "free"]

ChildRunning == \E p \in Pids : procs[p] = "running"
Holds(t, kind) == \E f \in Fds : t[f] = kind
MasterOpen == Holds(parentFds, "master") \/ Holds(childFds, "master")
SlaveOpen == Holds(parentFds, "slave") \/ Holds(childFds, "slave")
\* kill(pid, 0): a process-table entry exists, running or zombie.
ProcessExists(p) == p \in Pids /\ procs[p] # "absent"

\* ------------------------------------------------------------ make_winsize
WrongMakeWinsize(rows, cols) ==
    [ws_row |-> cols, ws_col |-> rows, ws_xpixel |-> 0, ws_ypixel |-> 0]
PixelMakeWinsize(rows, cols) ==
    [ws_row |-> rows, ws_col |-> cols, ws_xpixel |-> cols, ws_ypixel |-> rows]
make_winsize(rows, cols) ==
    [ws_row |-> rows, ws_col |-> cols, ws_xpixel |-> 0, ws_ypixel |-> 0]

\* The window size of the pair openpty(None, None) creates.
DefaultWinsize == make_winsize(24, 80)
OpenptyWinsize == make_winsize(0, 0)

\* err: the error of a completed blocking write, kept for the next poll.
NoFile == [fd |-> -1, op |-> "closed", data |-> <<>>, dropped |-> FALSE,
           err |-> FALSE]
\* No Terminal exists: before Terminal::new returns, and when it fails.
NoTerm == [state |-> "None", child |-> 0, master_read |-> 0, master_write |-> 0]

Init ==
    /\ shell \in Commands
    /\ parentFds \in InitialFdTables
    /\ parentEnv \in ParentEnvs
    /\ newPc = "openpty" /\ newErr = "none" /\ slavePort = -1 /\ newChild = 0
    /\ term = NoTerm
    /\ files = [h \in 1..2 |-> NoFile]
    /\ procs = [p \in Pids |-> "absent"]
    /\ childPc = "none" /\ childFds = NoFds
    /\ childSess = [leader |-> FALSE, ctty |-> FALSE]
    /\ childEnv = [v \in EnvVars |-> "unset"]
    /\ childArgv = <<>> /\ childCalls = <<>>
    /\ childExit = [status |-> -1, via |-> "none"]
    /\ heldAtFork = {}
    /\ winsize = make_winsize(0, 0)   \* no PTY yet
    /\ inBuf = <<>> /\ outBuf = <<>>
    /\ readerPc = "idle" /\ writerPc = "idle"
    /\ readerWaits = "none" /\ writerWaits = "none"
    /\ readLog = <<>> /\ readEos = FALSE /\ nWrites = 0
    /\ kills = <<>> /\ sigkill = FALSE
    /\ lastGet = <<>> /\ lastSet = <<>>
    /\ ioErr = "none"

\* ------------------------------------------------------------ tokio File
\* A blocking operation of the File is in flight on the blocking pool.
FileBusy(f) == f.op \in {"read", "write"}
\* Dropping the File objects H: an idle File closes its descriptor at once;
\* one with an operation in flight keeps it (the operation holds a reference
\* to the std File) until the operation completes.
FilesAfterDrop(fs, H) ==
    [h \in DOMAIN fs |->
        IF h \in H /\ fs[h].op # "closed"
        THEN IF FileBusy(fs[h]) THEN [fs[h] EXCEPT !.dropped = TRUE] ELSE NoFile
        ELSE fs[h]]
FdsAfterDrop(t, fs, H) ==
    [f \in Fds |->
        IF \E h \in H : fs[h].op # "closed" /\ fs[h].fd = f /\ ~FileBusy(fs[h])
        THEN "free" ELSE t[f]]
\* File::try_clone gives a new File object over a duplicate of the descriptor.
SameFile(h) == h
try_clone(h) == h + 1

\* ------------------------------------------------------------ Terminal::new
\* pty::openpty(None, None): a fresh master/slave pair with zeroed window
\* size, or an error.
NewOpenpty ==
    /\ newPc = "openpty"
    /\ \/ /\ Cardinality(FreeFds(parentFds)) >= 2
          /\ LET m == LowestFree(parentFds)
                 s == LowestFree([parentFds EXCEPT ![m] = "master"])
             IN /\ parentFds' = [parentFds EXCEPT ![m] = "master", ![s] = "slave"]
                /\ slavePort' = s
          /\ winsize' = OpenptyWinsize
          /\ newPc' = "fork_child"
          /\ UNCHANGED newErr
       \/ /\ newPc' = "err" /\ newErr' = "openpty"
          /\ UNCHANGED << parentFds, slavePort, winsize >>
    /\ ioErr' = "none"
    /\ UNCHANGED << shell, parentEnv, newChild, term, files, procs, childVars,
                    heldAtFork, ptyVars, taskVars, lastGet, lastSet,
                    kills, sigkill >>

\* The `?` after fork_child: `result` is dropped, closing master and slave.
NewFailBeforeFork(step) ==
    /\ newPc' = "err" /\ newErr' = step
    /\ parentFds' = CloseKind(CloseKind(parentFds, "master"), "slave")
    /\ UNCHANGED << slavePort, newChild, files, procs, childVars, heldAtFork >>

\* fork_child up to the parent branch of fork(), then File::from(master).
\* Nothing in the program depends on which process id fork() returns: the
\* child takes the first id of Pids that no process has.
NewForkChild ==
    /\ newPc = "fork_child"
    /\ \/ /\ shell = "nul"
          /\ NewFailBeforeFork("cstring")
       \/ /\ shell # "nul"
          /\ NewFailBeforeFork("fork")
       \/ /\ shell # "nul"
          /\ \E held \in HeldChoices :
                LET pid == Min({p \in Pids : procs[p] = "absent"})
                IN /\ procs' = [procs EXCEPT ![pid] = "running"]
                   /\ newChild' = pid
                   /\ heldAtFork' = held
          /\ childPc' = "login_tty"
          /\ childFds' = parentFds
          /\ childEnv' = parentEnv
          /\ files' = [files EXCEPT ![1] =
                [fd |-> CHOOSE f \in Fds : parentFds[f] = "master",
                 op |-> "idle", data |-> <<>>, dropped |-> FALSE,
                 err |-> FALSE]]
          /\ newPc' = "try_clone"
          /\ UNCHANGED << newErr, slavePort, parentFds, childSess, childArgv,
                          childCalls, childExit >>
    /\ ioErr' = "none"
    /\ UNCHANGED << shell, parentEnv, term, ptyVars, taskVars, geomVars,
                    kills, sigkill >>

\* `result` goes out of scope when Terminal::new returns: the parent's
\* result.slave is closed.
KeepSlave(t) == t
DropSlave(t) == CloseKind(t, "slave")
\* Ok(Self { child, master_read, master_write }).
ForgetChild(child, r, w) ==
    [state |-> "Created", child |-> 0, master_read |-> r, master_write |-> w]
NewTerminal(child, r, w) ==
    [state |-> "Created", child |-> child, master_read |-> r, master_write |-> w]

\* Leaving Terminal::new without a Terminal after the fork: master_read and
\* result.slave are dropped; nothing signals the child.
NewAbandon ==
    /\ parentFds' = DropSlave(FdsAfterDrop(parentFds, files, {1}))
    /\ files' = FilesAfterDrop(files, {1})
    /\ UNCHANGED << term, kills, sigkill >>

\* master_read.try_clone().await completes.
NewTryClone ==
    /\ newPc = "try_clone"
    /\ \/ /\ FreeFds(parentFds) # {}
          /\ LET fd == LowestFree(parentFds)
                 w == try_clone(1)
             IN /\ parentFds' = DropSlave([parentFds EXCEPT ![fd] = "master"])
                /\ files' = [files EXCEPT ![w] =
                      [fd |-> fd, op |-> "idle", data |-> <<>>, dropped |-> FALSE,
                 err |-> FALSE]]
                /\ term' = NewTerminal(newChild, 1, w)
          /\ newPc' = "ok"
          /\ UNCHANGED << newErr, kills, sigkill >>
       \/ /\ NewAbandon
          /\ newPc' = "err" /\ newErr' = "try_clone"
    /\ ioErr' = "none"
    /\ UNCHANGED << shell, parentEnv, slavePort, newChild, procs, childVars,
                    heldAtFork, ptyVars, taskVars, geomVars >>

\* The caller drops the future of Terminal::new while it is suspended at the
\* await of try_clone.
NewCancel ==
    /\ newPc = "try_clone"
    /\ NewAbandon
    /\ newPc' = "cancelled"
    /\ ioErr' = "none"
    /\ UNCHANGED << shell, parentEnv, newErr, slavePort, newChild, procs,
                    childVars, heldAtFork, ptyVars, taskVars, geomVars >>

\* ------------------------------------------------------------ the child
\* What each call of the child branch needs from the process it was forked
\* from: env::set_var and env::remove_var take std's environment lock and
\* allocate; nix's execvp collects its argument pointers into a Vec.
CallNeeds(call) ==
    CASE call = "setenv" -> {"alloc", "env"}
      [] call = "execvp" -> {"alloc"}
      [] OTHER -> {}
\* A lock another thread held at fork is never released in the child.
ChildCanCall(call) ==
    /\ childPc = call
    /\ ChildRunning
    /\ CallNeeds(call) \cap heldAtFork = {}

\* The process-table entry of a process once it has ended: nothing in the
\* driver waits for the child, so the entry, and with it the id, stays.
AutoReaped(s) == IF s = "running" THEN "absent" ELSE s
AfterExit(s) == IF s = "running" THEN "zombie" ELSE s

\* The process ends: its descriptors are closed and it stays in the process
\* table as a zombie until its parent waits for it, which the driver never
\* does.
ChildDies(status, via) ==
    /\ procs' = [p \in Pids |-> AfterExit(procs[p])]
    /\ childPc' = "dead"
    /\ childFds' = NoFds
    /\ childExit' = [status |-> status, via |-> via]
    /\ sigkill' = FALSE
    /\ UNCHANGED << childSess, childEnv, childArgv >>

\* login_tty(slave_port): setsid, TIOCSCTTY, dup2 onto 0, 1, 2, and close
\* of the slave descriptor when it is above 2.
LoginTtyFds(t, fd) ==
    [f \in Fds |-> IF f \in 0..2 THEN "slave"
                   ELSE IF f = fd THEN "free" ELSE t[f]]
ChildLoginTty ==
    /\ ChildCanCall("login_tty")
    /\ childCalls' = Append(childCalls, "login_tty")
    /\ \/ /\ childFds' = LoginTtyFds(childFds, slavePort)
          /\ childSess' = [leader |-> TRUE, ctty |-> TRUE]
          /\ childPc' = "closefrom"
       \/ /\ childSess' = [leader |-> TRUE, ctty |-> FALSE]
          /\ childPc' = "exit"
          /\ UNCHANGED childFds
    /\ UNCHANGED << childEnv, childArgv, childExit, procs >>
    /\ ioErr' = "none"
    /\ UNCHANGED << shell, parentFds, parentEnv, openVars, term, files,
                    heldAtFork, ptyVars, taskVars, geomVars, kills, sigkill >>

\* CloseFdsBuilder::new().closefrom(3)
CloseFromWrong(t, n) == [f \in Fds |-> IF f > n THEN "free" ELSE t[f]]
closefrom(t, n) == [f \in Fds |-> IF f >= n THEN "free" ELSE t[f]]
ChildCloseFrom ==
    /\ ChildCanCall("closefrom")
    /\ childCalls' = Append(childCalls, "closefrom")
    /\ childFds' = closefrom(childFds, 3)
    /\ childPc' = "setenv"
    /\ UNCHANGED << childSess, childEnv, childArgv, childExit, procs >>
    /\ ioErr' = "none"
    /\ UNCHANGED << shell, parentFds, parentEnv, openVars, term, files,
                    heldAtFork, ptyVars, taskVars, geomVars, kills, sigkill >>

\* The three env::set_var and the env::remove_var.
KeepVersionEnv(env) ==
    [env EXCEPT !["TERM"] = "xterm-256color",
                !["COLORTERM"] = "truecolor",
                !["TERM_PROGRAM"] = "sshx"]
SetTerminalEnv(env) ==
    [env EXCEPT !["TERM"] = "xterm-256color",
                !["COLORTERM"] = "truecolor",
                !["TERM_PROGRAM"] = "sshx",
                !["TERM_PROGRAM_VERSION"] = "unset"]
ChildSetEnv ==
    /\ ChildCanCall("setenv")
    /\ childCalls' = Append(childCalls, "setenv")
    /\ childEnv' = SetTerminalEnv(childEnv)
    /\ childPc' = "execvp"
    /\ UNCHANGED << childFds, childSess, childArgv, childExit, procs >>
    /\ ioErr' = "none"
    /\ UNCHANGED << shell, parentFds, parentEnv, openVars, term, files,
                    heldAtFork, ptyVars, taskVars, geomVars, kills, sigkill >>

\* execvp(shell, &[shell]): the image is replaced, or the call returns an
\* error and fork_child goes on to std::process::exit(1).
ChildExecvp ==
    /\ ChildCanCall("execvp")
    /\ childCalls' = Append(childCalls, "execvp")
    /\ IF shell = "missing"
       THEN childPc' = "exit" /\ UNCHANGED childArgv
       ELSE childPc' = "image" /\ childArgv' = << shell >>
    /\ UNCHANGED << childFds, childSess, childEnv, childExit, procs >>
    /\ ioErr' = "none"
    /\ UNCHANGED << shell, parentFds, parentEnv, openVars, term, files,
                    heldAtFork, ptyVars, taskVars, geomVars, kills, sigkill >>

\* std::process::exit(1): libc's exit, which runs the exit handlers the
\* parent had registered before the fork, then ends the process.
ExitCall == "exit"
ChildExit ==
    /\ ChildCanCall("exit")
    /\ childCalls' = Append(childCalls, ExitCall)
    /\ ChildDies(1, ExitCall)
    /\ ioErr' = "none"
    /\ UNCHANGED << shell, parentFds, parentEnv, openVars, term, files,
                    heldAtFork, ptyVars, taskVars, geomVars, kills >>

\* The image "sh" reads a byte from its terminal and echoes it.
ChildEcho ==
    /\ childPc = "image" /\ shell = "sh" /\ ChildRunning
    /\ inBuf # <<>>
    /\ Len(outBuf) < BufCap
    /\ inBuf' = Tail(inBuf)
    /\ outBuf' = Append(outBuf, Head(inBuf))
    /\ ioErr' = "none"
    /\ UNCHANGED << shell, parentFds, parentEnv, openVars, term, files, procs,
                    childVars, heldAtFork, taskVars, geomVars, kills, sigkill >>

\* The kernel hangs the terminal up once no master descriptor is left and
\* sends SIGHUP to the session it controls; a process that ignores SIGHUP
\* runs on.
IgnoresHup == childPc = "image" /\ shell = "daemon"
DeliverHup ==
    /\ ChildRunning
    /\ childSess.ctty
    /\ ~MasterOpen
    /\ ~IgnoresHup
    /\ ChildDies(129, "SIGHUP")
    /\ UNCHANGED childCalls
    /\ ioErr' = "none"
    /\ UNCHANGED << shell, parentFds, parentEnv, openVars, term, files,
                    heldAtFork, ptyVars, taskVars, geomVars, kills >>

\* The kernel delivers the queued SIGKILL.
DeliverKill ==
    /\ sigkill
    /\ ChildRunning
    /\ ChildDies(137, "SIGKILL")
    /\ UNCHANGED childCalls
    /\ ioErr' = "none"
    /\ UNCHANGED << shell, parentFds, parentEnv, openVars, term, files,
                    heldAtFork, ptyVars, taskVars, geomVars, kills >>

\* ------------------------------------------------------------ the two halves
\* What an error return of a driver call leaves of the Terminal: all of it.
TornDown(t) == [t EXCEPT !.state = "Terminated"]
OnIoError(t) == t
\* The File each half forwards to.
ReadHandle(t) == t.master_read
WrongHandle(t) == t.master_read
WriteHandle(t) == t.master_write

\* AsyncRead::poll_read, forwarded to master_read.  A File with a blocking
\* operation in flight makes every poll wait for that operation; an idle
\* File starts a blocking read(2); a completed read is handed to the caller.
\* The end of the stream is reported as a read of no bytes or as an error
\* (EIO), as the platform has it.
PollRead ==
    /\ term.state = "Created"
    /\ ~readEos
    /\ LET h == ReadHandle(term)
           f == files[h]
       IN /\ readerPc = "idle" \/ ~FileBusy(f)
          /\ IF f.op = "readdone"
             THEN /\ readLog' = readLog \o f.data
                  /\ readEos' = (f.data = <<>>)
                  /\ files' = [files EXCEPT ![h].op = "idle", ![h].data = <<>>]
                  /\ readerPc' = "idle"
                  /\ readerWaits' = "none"
                  /\ \E e \in IF f.data = <<>> THEN {"none", "read"} ELSE {"none"} :
                        /\ ioErr' = e
                        /\ term' = IF e = "none" THEN term ELSE OnIoError(term)
             ELSE /\ files' = [files EXCEPT ![h].op =
                                   IF f.op = "idle" THEN "read" ELSE f.op]
                  /\ readerPc' = "pending"
                  /\ readerWaits' = IF f.op = "idle" THEN "read" ELSE f.op
                  /\ ioErr' = "none"
                  /\ UNCHANGED << readLog, readEos, term >>
    /\ UNCHANGED << shell, parentFds, parentEnv, openVars, procs,
                    childVars, heldAtFork, ptyVars, writerPc, writerWaits,
                    nWrites, geomVars, kills, sigkill >>

\* The caller writes one byte at a time, each byte different from the ones
\* before it, so that a reordered or repeated byte shows.
NextByte(n) == n + 1
\* The File takes the bytes of a write only when no operation is in flight.
AlwaysAccepted(f) == TRUE
WriteAccepted(f) == ~FileBusy(f)
\* AsyncWrite::poll_write, forwarded to master_write.  An idle File copies
\* the bytes, starts a blocking write(2) and reports them written; a File
\* with an operation in flight makes the poll wait; the error of the last
\* blocking write is returned instead of taking the bytes.
PollWrite ==
    /\ term.state = "Created"
    /\ nWrites < MaxWrites
    /\ LET h == WriteHandle(term)
           f == files[h]
       IN /\ writerPc = "idle" \/ ~FileBusy(f)
          /\ IF ~WriteAccepted(f)
             THEN /\ writerPc' = "pending"
                  /\ writerWaits' = f.op
                  /\ ioErr' = "none"
                  /\ UNCHANGED << files, nWrites, term >>
             ELSE /\ IF f.err
                     THEN /\ files' = [files EXCEPT ![h].err = FALSE]
                          /\ ioErr' = "write"
                          /\ term' = OnIoError(term)
                          /\ UNCHANGED nWrites
                     ELSE /\ files' = [files EXCEPT ![h].op = "write",
                                          ![h].data = << NextByte(nWrites) >>]
                          /\ nWrites' = nWrites + 1
                          /\ ioErr' = "none"
                          /\ UNCHANGED term
                  /\ writerPc' = "idle"
                  /\ writerWaits' = "none"
    /\ UNCHANGED << shell, parentFds, parentEnv, openVars, procs,
                    childVars, heldAtFork, ptyVars, readerPc, readerWaits,
                    readLog, readEos, geomVars, kills, sigkill >>

\* poll_flush and poll_shutdown of the File: wait for the operation in
\* flight, then return the error of the last blocking write, if any.
FlushFile(call) ==
    /\ term.state = "Created"
    /\ LET h == WriteHandle(term)
           f == files[h]
       IN /\ writerPc = "idle" \/ ~FileBusy(f)
          /\ IF FileBusy(f)
             THEN /\ writerPc' = "pending"
                  /\ writerWaits' = f.op
                  /\ ioErr' = "none"
                  /\ UNCHANGED << files, term >>
             ELSE /\ files' = [files EXCEPT ![h].err = FALSE]
                  /\ ioErr' = IF f.err THEN call ELSE "none"
                  /\ term' = IF f.err THEN OnIoError(term) ELSE term
                  /\ writerPc' = "idle"
                  /\ writerWaits' = "none"
    /\ UNCHANGED << shell, parentFds, parentEnv, openVars, procs,
                    childVars, heldAtFork, ptyVars, readerPc, readerWaits,
                    readLog, readEos, nWrites, geomVars, kills, sigkill >>
\* AsyncWrite::poll_flush, forwarded to master_write.
PollFlush == FlushFile("flush")
\* AsyncWrite::poll_shutdown, forwarded to master_write.
PollShutdown == FlushFile("shutdown")

\* The task awaiting a read is cancelled: its future is dropped, the File
\* and the operation in flight are left as they are.
FileAborted(f) == [f EXCEPT !.op = "idle", !.data = <<>>]
FileAfterCancel(f) == f
CancelRead ==
    /\ readerPc = "pending"
    /\ readerPc' = "idle"
    /\ readerWaits' = "none"
    /\ files' = [files EXCEPT ![ReadHandle(term)] = FileAfterCancel(@)]
    /\ ioErr' = "none"
    /\ UNCHANGED << shell, parentFds, parentEnv, openVars, term, procs,
                    childVars, heldAtFork, ptyVars, writerPc, writerWaits,
                    readLog, readEos, nWrites, geomVars, kills, sigkill >>

\* The task awaiting a write, a flush or a shutdown is cancelled.
CancelWrite ==
    /\ writerPc = "pending"
    /\ writerPc' = "idle"
    /\ writerWaits' = "none"
    /\ files' = [files EXCEPT ![WriteHandle(term)] = FileAfterCancel(@)]
    /\ ioErr' = "none"
    /\ UNCHANGED << shell, parentFds, parentEnv, openVars, term, procs,
                    childVars, heldAtFork, ptyVars, readerPc, readerWaits,
                    readLog, readEos, nWrites, geomVars, kills, sigkill >>

\* The File after its operation in flight completed, and the descriptor
\* table: a File that was dropped meanwhile goes away with its descriptor.
FileCompleted(f, op, data, err) ==
    IF f.dropped THEN NoFile
    ELSE [f EXCEPT !.op = op, !.data = data, !.err = err]
FdsCompleted(t, f) == IF f.dropped THEN CloseFd(t, f.fd) ELSE t

\* The blocking read(2) on the master returns: with the bytes the child
\* wrote, or with end-of-stream once no slave descriptor is open.
BlockingReadDone ==
    /\ \E h \in DOMAIN files :
          /\ files[h].op = "read"
          /\ outBuf # <<>> \/ ~SlaveOpen
          /\ files' = [files EXCEPT ![h] =
                FileCompleted(files[h], "readdone", outBuf, files[h].err)]
          /\ parentFds' = FdsCompleted(parentFds, files[h])
    /\ outBuf' = <<>>
    /\ ioErr' = "none"
    /\ UNCHANGED << shell, parentEnv, openVars, term, procs, childVars,
                    heldAtFork, inBuf, taskVars, geomVars, kills, sigkill >>

\* The blocking write(2) on the master returns: the bytes are queued for
\* the slave side when there is room; with no slave open the call fails
\* (EIO) and the File keeps the error for the next poll.
BlockingWriteDone ==
    /\ \E h \in DOMAIN files :
          /\ files[h].op = "write"
          /\ ~SlaveOpen \/ Len(inBuf) + Len(files[h].data) <= BufCap
          /\ inBuf' = IF SlaveOpen THEN inBuf \o files[h].data ELSE inBuf
          /\ files' = [files EXCEPT ![h] =
                FileCompleted(files[h], "idle", <<>>, ~SlaveOpen)]
          /\ parentFds' = FdsCompleted(parentFds, files[h])
    /\ ioErr' = "none"
    /\ UNCHANGED << shell, parentEnv, openVars, term, procs, childVars,
                    heldAtFork, outBuf, taskVars, geomVars, kills, sigkill >>

\* ------------------------------------------------------------ window size
\* The (rows, cols) get_winsize returns for the structure the ioctl read.
WrongGetWinsize(ws) == << ws.ws_col, ws.ws_row >>
get_winsize(ws) == << ws.ws_row, ws.ws_col >>
\* get_winsize: the TIOCGWINSZ ioctl on master_read's descriptor; an error
\* of the ioctl is returned by `?`.
GetWinsize ==
    /\ term.state = "Created"
    /\ parentFds[files[term.master_read].fd] = "master"
    /\ \/ /\ lastGet' = get_winsize(winsize)
          /\ ioErr' = "none"
          /\ UNCHANGED term
       \/ /\ ioErr' = "get_winsize"
          /\ term' = OnIoError(term)
          /\ UNCHANGED lastGet
    /\ UNCHANGED << shell, parentFds, parentEnv, openVars, files, procs,
                    childVars, heldAtFork, ptyVars, taskVars, winsize, lastSet,
                    kills, sigkill >>

\* set_winsize: the TIOCSWINSZ ioctl with make_winsize(rows, cols); an
\* error of the ioctl is returned by `?` and the PTY keeps its size.
SetWinsize ==
    /\ term.state = "Created"
    /\ parentFds[files[term.master_read].fd] = "master"
    /\ \/ /\ \E rc \in WinsizeSamples :
                /\ winsize' = make_winsize(rc[1], rc[2])
                /\ lastSet' = rc
          /\ lastGet' = <<>>
          /\ ioErr' = "none"
          /\ UNCHANGED term
       \/ /\ ioErr' = "set_winsize"
          /\ term' = OnIoError(term)
          /\ UNCHANGED << winsize, lastSet, lastGet >>
    /\ UNCHANGED << shell, parentFds, parentEnv, openVars, files, procs,
                    childVars, heldAtFork, ptyVars, taskVars, kills, sigkill >>

\* ------------------------------------------------------------ PinnedDrop
\* kill(pid, sig): Ok when the process-table entry exists, ESRCH otherwise.
KillResult(pid) == IF ProcessExists(pid) THEN "Ok" ELSE "ESRCH"
\* One kill(pid, SIGKILL) call: its result, and what the signal hit.
KillCall(pid) ==
    [pid |-> pid, sig |-> "SIGKILL", res |-> KillResult(pid),
     hit |-> IF pid \in Pids THEN procs[pid] ELSE "absent"]
\* The kill calls of drop(): one SIGKILL to the stored child id, whatever
\* the child's state; the result is discarded by .ok().
KillOnlyIfRunning(pid) ==
    IF procs[pid] = "running" THEN << KillCall(pid) >> ELSE << >>
DropKills(pid) == << KillCall(pid) >>
\* The Terminal is released: drop() runs, then the two Files are dropped.
\* The futures of pending reads and writes borrow the Terminal, so they are
\* gone by then.
Drop ==
    /\ term.state = "Created"
    /\ readerPc = "idle" /\ writerPc = "idle"
    /\ kills' = kills \o DropKills(term.child)
    /\ sigkill' = (DropKills(term.child) # << >> /\ procs[term.child] = "running")
    /\ files' = FilesAfterDrop(files, {term.master_read, term.master_write})
    /\ parentFds' = FdsAfterDrop(parentFds, files, {term.master_read, term.master_write})
    /\ term' = [term EXCEPT !.state = "Terminated"]
    /\ ioErr' = "none"
    /\ UNCHANGED << shell, parentEnv, openVars, procs, childVars, heldAtFork,
                    ptyVars, taskVars, geomVars >>

\* ------------------------------------------------------------ specification
Next ==
    \/ NewOpenpty
    \/ NewForkChild
    \/ NewTryClone
    \/ NewCancel
    \/ ChildLoginTty
    \/ ChildCloseFrom
    \/ ChildSetEnv
    \/ ChildExecvp
    \/ ChildExit
    \/ ChildEcho
    \/ DeliverHup
    \/ DeliverKill
    \/ PollRead
    \/ PollWrite
    \/ PollFlush
    \/ PollShutdown
    \/ CancelRead
    \/ CancelWrite
    \/ BlockingReadDone
    \/ BlockingWriteDone
    \/ GetWinsize
    \/ SetWinsize
    \/ Drop

Spec == Init /\ [][Next]_vars

\* What the kernel, the child and the blocking pool do they do eventually;
\* what the caller does (polls, cancellations, window-size calls, the
\* release) carries no fairness.
FairSpec ==
    /\ Spec
    /\ WF_vars(NewTryClone)
    /\ WF_vars(ChildLoginTty)
    /\ WF_vars(ChildCloseFrom)
    /\ WF_vars(ChildSetEnv)
    /\ WF_vars(ChildExecvp)
    /\ WF_vars(ChildExit)
    /\ WF_vars(ChildEcho)
    /\ WF_vars(DeliverHup)
    /\ WF_vars(DeliverKill)
    /\ WF_vars(BlockingReadDone)
    /\ WF_vars(BlockingWriteDone)

\* ------------------------------------------------------------ claims
\* C1: once the Session is released and the SIGKILL sent by the release
\* has taken effect (the longest the bounded delay can last), the child
\* does not exist any more for a process-existence check, kill(pid, 0), on
\* the stored child id.
C1_ReleasedChildGone ==
    (term.state = "Terminated" /\ ~sigkill) => ~ProcessExists(term.child)

\* C2: SIGKILL is sent to the stored child id exactly once, by the release
\* and by nothing else, whatever the child's state, and the release goes
\* through whatever kill returned.
C2_KillOnceAtRelease ==
    /\ term.state # "Terminated" => kills = << >>
    /\ term.state = "Terminated" =>
          /\ Len(kills) = 1
          /\ kills[1].pid = term.child
          /\ kills[1].pid = newChild
          /\ kills[1].sig = "SIGKILL"
\* The release happened after the child had exited, and the signal was sent
\* all the same.
C2_Witness ==
    /\ term.state = "Terminated"
    /\ Len(kills) = 1
    /\ kills[1].hit = "zombie"
    /\ nWrites > 0 /\ lastSet # <<>>

\* C3: once Terminal::new has returned an error, no child forked by that
\* call is still running and the parent holds no descriptor of the PTY the
\* call opened.
C3_FailedOpenLeavesNothing ==
    newPc = "err" =>
        /\ ~ChildRunning
        /\ ~Holds(parentFds, "master")
        /\ ~Holds(parentFds, "slave")

\* C4: neither half waits on the other: a poll of the write half never has
\* to wait for a read in flight, a poll of the read half never has to wait
\* for a write in flight, and the two halves are different File objects
\* over different descriptors of the same master.
C4_HalvesIndependent ==
    /\ writerWaits # "read"
    /\ readerWaits # "write"
    /\ term.state = "Created" =>
          /\ term.master_read # term.master_write
          /\ files[term.master_read].fd # files[term.master_write].fd
          /\ parentFds[files[term.master_read].fd] = "master"
          /\ parentFds[files[term.master_write].fd] = "master"
\* A write was accepted and is in flight while a read is in flight, waiting
\* for output of a child that never writes.
C4_Witness ==
    /\ term.state = "Created"
    /\ shell = "busy"
    /\ readerPc = "pending"
    /\ files[term.master_read].op = "read"
    /\ files[term.master_write].op = "write"
    /\ nWrites >= 1

\* C5: get_winsize after set_winsize(rows, cols) returns (rows, cols), and
\* the PTY holds exactly that size.
C5_RoundTrip ==
    /\ (lastSet # << >> /\ lastGet # << >>) => lastGet = lastSet
    /\ lastSet # << >> =>
          << winsize.ws_row, winsize.ws_col >> = lastSet
\* A set_winsize with different rows and columns, at the top of the u16
\* range, was read back.
C5_Witness ==
    /\ lastSet = << 0, 65535 >>
    /\ lastGet = << 0, 65535 >>

AtEndOfStream == outBuf = << >> /\ ~SlaveOpen
\* C7: when Terminal::new returned a Terminal for a command that does not
\* exist, the read half reaches end-of-stream.
C7_MissingCommandEos ==
    (newPc = "ok" /\ shell = "missing") ~> AtEndOfStream
\* C7, where no other thread held a lock at the fork.
C7_MissingCommandEosUnlocked ==
    (newPc = "ok" /\ shell = "missing" /\ heldAtFork = {}) ~> AtEndOfStream

\* The child waits for a lock that a thread of the parent held at the fork;
\* that thread does not exist in the child.
ChildBlocked ==
    /\ ChildRunning
    /\ childPc \in {"login_tty", "closefrom", "setenv", "execvp", "exit"}
    /\ CallNeeds(childPc) \cap heldAtFork # {}
\* C8: between fork and exec the child makes no call that allocates or
\* takes a lock of the parent, and so it is never left blocked.
C8_ChildCallsSafe ==
    /\ \A i \in 1..Len(childCalls) : CallNeeds(childCalls[i]) = {}
    /\ ~ChildBlocked

\* C9: a child in which login_tty or execvp failed ends with a non-zero
\* status through _exit, having run nothing else after the failure; and
\* the parent's Terminal::new holds the child's pid all the same.
C9_FailedChildExitsPrimitively ==
    /\ (childPc = "dead" /\ childArgv = << >>
            /\ childExit.via \notin {"SIGHUP", "SIGKILL"}) =>
          /\ childExit.status # 0
          /\ childExit.via = "_exit"
    /\ newPc = "ok" => (term.child = newChild /\ newChild \in Pids)

\* C10: the image the child runs was started by a session leader whose
\* descriptors 0, 1 and 2 are the PTY slave, its controlling terminal, with
\* no descriptor from 3 up open, after the calls login_tty, closefrom,
\* set_var/remove_var, execvp in this order.
C10_ExecState ==
    (childPc = "image" /\ ChildRunning) =>
        /\ childSess.leader /\ childSess.ctty
        /\ \A f \in Fds : childFds[f] = (IF f <= 2 THEN "slave" ELSE "free")
        /\ childCalls = << "login_tty", "closefrom", "setenv", "execvp" >>
\* The image runs in a child that had inherited the master as descriptor 3
\* and the slave as descriptor 4.
C10_Witness ==
    /\ childPc = "image" /\ ChildRunning
    /\ slavePort = 4
    /\ newPc = "try_clone"
\* C11: the command starts with TERM=xterm-256color, COLORTERM=truecolor,
\* TERM_PROGRAM=sshx and no TERM_PROGRAM_VERSION, whatever the parent's
\* environment held for them, and with its own name as only argument.
C11_ChildEnvAndArgv ==
    childPc = "image" =>
        /\ childEnv["TERM"] = "xterm-256color"
        /\ childEnv["COLORTERM"] = "truecolor"
        /\ childEnv["TERM_PROGRAM"] = "sshx"
        /\ childEnv["TERM_PROGRAM_VERSION"] = "unset"
        /\ childArgv = << shell >>
\* The command runs under a parent that had other values for all four.
C11_Witness ==
    /\ childPc = "image"
    /\ parentEnv["TERM"] = "dumb"
    /\ parentEnv["TERM_PROGRAM_VERSION"] = "1.0"
    /\ shell = "sh"
\* The bytes the caller has written so far, in the order written.
Written == [i \in 1..nWrites |-> NextByte(i - 1)]
\* s is an initial part of t.
IsPrefix(s, t) == Len(s) <= Len(t) /\ \A i \in 1..Len(s) : s[i] = t[i]
C13_IoErrorKeepsSession ==
    [][ioErr' # "none" =>
          /\ term.state = "Created"
          /\ term' = term
          /\ \A h \in DOMAIN files :
                /\ files'[h].fd = files[h].fd
                /\ ~files'[h].dropped
          /\ parentFds' = parentFds
          /\ procs' = procs
          /\ kills' = kills /\ sigkill' = sigkill
          /\ winsize' = winsize /\ lastSet' = lastSet]_vars
\* set_winsize fails after an earlier call set 120 rows and 72 columns: the
\* Terminal is still Created and the PTY still has that size.
C13_Witness ==
    /\ ioErr = "set_winsize"
    /\ term.state = "Created"
    /\ lastSet = << 120, 72 >>
    /\ winsize = make_winsize(120, 72)
\* C14: one child belongs to a Terminal for all of its life.  The child id
\* the Terminal stores is the one fork() returned to Terminal::new and no
\* step changes it; once a child was forked no step forks another; and the
\* Terminal only goes from Created to Terminated, never back.
C14_OneChildForLife ==
    [][/\ term.state # "None" =>
             /\ term.child = newChild
             /\ term'.child = term.child
             /\ term'.state \in {term.state, "Terminated"}
       /\ term.state = "None" => term'.state \in {"None", "Created"}
       /\ newChild # 0 =>
             /\ newChild' = newChild
             /\ \A p \in Pids \ {newChild} : procs'[p] = "absent"]_vars
\* A Terminal that was read, written and resized and then released still
\* names the child that Terminal::new forked, and no other process exists.
C14_Witness ==
    /\ term.state = "Terminated"
    /\ term.child = newChild /\ procs[newChild] # "absent"
    /\ \A p \in Pids \ {newChild} : procs[p] = "absent"
    /\ readLog # <<>> /\ nWrites = MaxWrites /\ lastSet # <<>> /\ lastGet # <<>>
\* C15: the two halves are two Files over two descriptors and every
\* operation works on the File of its own half only: poll_read leaves the
\* write File and the writer's wait untouched, and poll_write, poll_flush
\* and poll_shutdown leave the read File and the reader's wait untouched.
C15_OwnHandleOnly ==
    [][/\ term.state = "Created" =>
             /\ ReadHandle(term) # WriteHandle(term)
             /\ files[ReadHandle(term)].fd # files[WriteHandle(term)].fd
       /\ PollRead =>
             /\ files'[term.master_write] = files[term.master_write]
             /\ writerPc' = writerPc /\ writerWaits' = writerWaits
       /\ (PollWrite \/ PollFlush \/ PollShutdown) =>
             /\ files'[term.master_read] = files[term.master_read]
             /\ readerPc' = readerPc /\ readerWaits' = readerWaits]_vars
\* A flush waits for the write in flight on the write File while the read
\* File holds a completed read that no poll has collected yet.
C15_Witness ==
    /\ term.state = "Created"
    /\ files[term.master_read].op = "readdone"
    /\ files[term.master_read].data # <<>>
    /\ files[term.master_write].op = "write"
    /\ writerPc = "pending" /\ writerWaits = "write"
\* C16: cancelling the task that awaits a read or a write changes nothing
\* but that wait.  The Terminal, its two Files with whatever operation
\* they have in flight and the bytes of it, the descriptors, the child, the
\* PTY's buffers and size, and the other half's wait are as before, and the
\* cancelled half is idle again, so that its next poll is taken.
C16_CancelKeepsSession ==
    [][(CancelRead \/ CancelWrite) =>
          /\ term' = term /\ term.state = "Created"
          /\ files' = files
          /\ parentFds' = parentFds
          /\ procs' = procs /\ childPc' = childPc
          /\ kills' = kills /\ sigkill' = sigkill
          /\ winsize' = winsize
          /\ inBuf' = inBuf /\ outBuf' = outBuf
          /\ readLog' = readLog /\ nWrites' = nWrites
          /\ CancelRead => (readerPc' = "idle" /\ ~readEos' /\ writerPc' = writerPc)
          /\ CancelWrite => (writerPc' = "idle" /\ readerPc' = readerPc)]_vars
\* The read a cancelled task had started completed afterwards: its bytes
\* wait in the read File for the next poll, and no task is waiting.
C16_Witness ==
    /\ term.state = "Created"
    /\ readerPc = "idle"
    /\ files[term.master_read].op = "readdone"
    /\ files[term.master_read].data # <<>>
\* C17: the PTY's pixel width and pixel height are 0 whatever rows and
\* columns set_winsize is given; a set_winsize that succeeds changes the
\* PTY's rows and columns to its arguments and nothing else of the Terminal,
\* its Files, its descriptors, its child or the bytes under way; and
\* get_winsize changes nothing but its caller's result.
C17_SetSizeOnlyRowsCols ==
    [][/\ winsize.ws_xpixel = 0 /\ winsize.ws_ypixel = 0
       /\ (SetWinsize /\ ioErr' = "none") =>
             /\ winsize' = [ws_row |-> lastSet'[1], ws_col |-> lastSet'[2],
                            ws_xpixel |-> 0, ws_ypixel |-> 0]
             /\ lastSet' \in WinsizeSamples
       /\ SetWinsize =>
             UNCHANGED << term, files, parentFds, procs, childVars, ptyVars,
                          taskVars, kills, sigkill, openVars >>
       /\ GetWinsize =>
             UNCHANGED << term, files, parentFds, procs, childVars, ptyVars,
                          taskVars, kills, sigkill, openVars, winsize,
                          lastSet >>]_vars
\* The largest rows and columns were set while a write was in flight: the
\* PTY has them, with both pixel sizes 0.
C17_Witness ==
    /\ lastSet = << 65535, 65535 >>
    /\ winsize = [ws_row |-> 65535, ws_col |-> 65535,
                  ws_xpixel |-> 0, ws_ypixel |-> 0]
    /\ term.state = "Created"
    /\ files[term.master_write].op = "write"
\* C18: the SIGKILL of the release reaches the process Terminal::new
\* forked and no other.  From fork to release the stored child id is the
\* id of that process' entry in the process table, running or zombie, so
\* the id is never free to be given to another process; every kill names
\* that id and finds that entry, also when the child had ended before.
C18_KillHitsOwnChild ==
    /\ term.state = "Created" =>
          /\ term.child = newChild
          /\ ProcessExists(term.child)
    /\ \A i \in 1..Len(kills) :
          /\ kills[i].pid = newChild
          /\ kills[i].hit \in {"running", "zombie"}
          /\ kills[i].res = "Ok"
\* The command could not be executed, the child ended, the caller read the
\* end of the stream and only then released the Terminal: the kill found
\* the child's zombie.
C18_Witness ==
    /\ term.state = "Terminated"
    /\ shell = "missing" /\ readEos
    /\ Len(kills) = 1
    /\ kills[1].pid = newChild
    /\ kills[1].hit = "zombie" /\ kills[1].res = "Ok"
\* C19: when the caller cancels Terminal::new while it is suspended at the
\* await of try_clone, the child that was already forked does not go on
\* running on its own: it has ended or a SIGKILL is on its way to it.
C19_CancelledOpenKillsChild ==
    newPc = "cancelled" => (~ChildRunning \/ sigkill)
\* C20: the parent has the slave descriptor open from openpty until
\* Terminal::new is left, so it is open at the fork; once Terminal::new has
\* returned, with a Terminal or with an error, or was cancelled, the parent
\* has no slave descriptor, and whatever keeps the slave side open is a
\* descriptor of the child.
C20_ParentSlaveOnlyDuringOpen ==
    /\ newPc \in {"fork_child", "try_clone"} =>
          /\ slavePort \in Fds
          /\ parentFds[slavePort] = "slave"
    /\ newPc \in {"ok", "err", "cancelled"} =>
          /\ ~Holds(parentFds, "slave")
          /\ SlaveOpen => Holds(childFds, "slave")
\* Terminal::new returned a Terminal and the command runs: the slave side
\* is open in the child, as descriptors 0, 1 and 2, and not in the parent.
C20_Witness ==
    /\ newPc = "ok" /\ term.state = "Created"
    /\ childPc = "image"
    /\ \A f \in 0..2 : childFds[f] = "slave"
    /\ ~Holds(parentFds, "slave")
====
